---- MODULE Spec2Model ----
(***************************************************************************)
(* Model of src/python/mpu6050_viewer_tcp.py: the ingest loop              *)
(* (read_tcp_data), the line parsers, the distance and orientation         *)
(* filters, the button/calibration event handling and the snapshot         *)
(* handler (WebHandler.do_GET) sharing one SensorState under state.lock.   *)
(*                                                                         *)
(* Text is a sequence of one-character strings.  Floating point values     *)
(* are fixed point: distances, degrees and seconds in hundredths (FP),     *)
(* radians in ten-thousandths.  An Optional value is <<>> for None and     *)
(* <<v>> for v.                                                            *)
(***************************************************************************)
EXTENDS Integers, Sequences, FiniteSets, TLC

\* ------------------------------------------------------------ numbers

\* Fixed-point units per 1.0 of a distance (cm), an angle in degrees, a time (s).
FP == 100

\* math.pi, in ten-thousandths of a radian.
PI == 31416

None == <<>>

Some(v) == <<v>>

Val(o) == o[1]

Abs(x) == IF x < 0 THEN -x ELSE x

\* a / b rounded to the nearest integer (b > 0), halves away from zero.
RoundDiv(a, b) == IF a >= 0 THEN (2 * a + b) \div (2 * b) ELSE -((2 * (-a) + b) \div (2 * b))

\* a * m / d rounded to the nearest integer (m, d > 0), the quotient and the
\* remainder of a / d multiplied apart so that no product leaves 32 bits.
MulDiv(a, m, d) ==
    LET mag == (Abs(a) \div d) * m + RoundDiv((Abs(a) % d) * m, d)
    IN  IF a < 0 THEN -mag ELSE mag

\* ------------------------------------------------------------ text

Space == {" ", "\t", "\n", "\r"}

Digits == <<"0", "1", "2", "3", "4", "5", "6", "7", "8", "9">>

UpperCase == <<"A", "B", "C", "D", "E", "F", "G", "H", "I", "J", "K", "L", "M",
               "N", "O", "P", "Q", "R", "S", "T", "U", "V", "W", "X", "Y", "Z">>

LowerCase == <<"a", "b", "c", "d", "e", "f", "g", "h", "i", "j", "k", "l", "m",
               "n", "o", "p", "q", "r", "s", "t", "u", "v", "w", "x", "y", "z">>

\* str.lower() on one character.
LowerChar(c) ==
    IF \E i \in 1..26 : UpperCase[i] = c
    THEN LowerCase[CHOOSE i \in 1..26 : UpperCase[i] = c]
    ELSE c

\* str.lower()
Lower(s) == [i \in 1..Len(s) |-> LowerChar(s[i])]

\* str.startswith(p)
StartsWith(s, p) == Len(s) >= Len(p) /\ SubSeq(s, 1, Len(p)) = p

\* p in s
Contains(s, p) == \E i \in 1..(Len(s) - Len(p) + 1) : SubSeq(s, i, i + Len(p) - 1) = p

\* str.strip()
Strip(s) ==
    LET keep == {i \in 1..Len(s) : s[i] \notin Space}
    IN  IF keep = {} THEN <<>>
        ELSE SubSeq(s, CHOOSE i \in keep : \A j \in keep : i <= j,
                       CHOOSE i \in keep : \A j \in keep : i >= j)

\* str.replace(",", " ")
ReplaceComma(s) == [i \in 1..Len(s) |-> IF s[i] = "," THEN " " ELSE s[i]]

RECURSIVE SplitFrom(_, _, _)
SplitFrom(s, i, cur) ==
    IF i > Len(s) THEN (IF cur = <<>> THEN <<>> ELSE <<cur>>)
    ELSE IF s[i] \in Space
         THEN (IF cur = <<>> THEN <<>> ELSE <<cur>>) \o SplitFrom(s, i + 1, <<>>)
         ELSE SplitFrom(s, i + 1, Append(cur, s[i]))

\* str.split(): the maximal runs of non-whitespace characters, in order.
Split(s) == SplitFrom(s, 1, <<>>)

IsDigit(c) == \E i \in 1..10 : Digits[i] = c

DigitVal(c) == (CHOOSE i \in 1..10 : Digits[i] = c) - 1

RECURSIVE DecValue(_)
DecValue(ds) ==
    IF ds = <<>> THEN 0
    ELSE 10 * DecValue(SubSeq(ds, 1, Len(ds) - 1)) + DigitVal(ds[Len(ds)])

\* The first two fractional digits of ds, as hundredths.
FracValue(ds) ==
    (IF Len(ds) >= 1 THEN 10 * DigitVal(ds[1]) ELSE 0)
    + (IF Len(ds) >= 2 THEN DigitVal(ds[2]) ELSE 0)

\* float(tok) for the decimal notation [sign] digits [. digits]: Some(value in FP
\* units), or None where float() raises ValueError.
ParseFloat(tok) ==
    LET neg  == tok # <<>> /\ tok[1] = "-"
        body == IF tok # <<>> /\ tok[1] \in {"-", "+"} THEN Tail(tok) ELSE tok
        dots == {i \in 1..Len(body) : body[i] = "."}
        dot  == IF dots = {} THEN Len(body) + 1 ELSE CHOOSE i \in dots : TRUE
        ip   == SubSeq(body, 1, dot - 1)
        fp   == SubSeq(body, dot + 1, Len(body))
        ok   == /\ Cardinality(dots) <= 1
                /\ Len(ip) + Len(fp) >= 1
                /\ \A i \in 1..Len(ip) : IsDigit(ip[i])
                /\ \A i \in 1..Len(fp) : IsDigit(fp[i])
        mag  == FP * DecValue(ip) + FracValue(fp)
    IN  IF ok THEN Some(IF neg THEN -mag ELSE mag) ELSE None

\* ------------------------------------------------------------ parsers

T_distance == <<"d", "i", "s", "t", "a", "n", "c", "e", ":">>

T_ax == <<"a", "x", ":">>

T_gx == <<"g", "x", ":">>

T_calibrated == <<"c", "a", "l", "i", "b", "r", "a", "t", "e", "d">>

T_pb12 == <<"p", "b", "1", "2">>

T_pressed == <<"p", "r", "e", "s", "s", "e", "d">>

T_button == <<"b", "u", "t", "t", "o", "n">>

\* The required keys without gy.
RequiredFive == {<<"a", "x">>, <<"a", "y">>, <<"a", "z">>, <<"g", "x">>, <<"g", "z">>}

Required == {<<"a", "x">>, <<"a", "y">>, <<"a", "z">>, <<"g", "x">>, <<"g", "y">>, <<"g", "z">>}

\* parse_distance with `except ValueError` returning 0.0 instead of None.
parse_distance_zero(line) ==
    IF ~StartsWith(line, T_distance) THEN None
    ELSE LET parts == Split(line)
         IN  IF Len(parts) < 2 THEN None
             ELSE IF ParseFloat(parts[2]) = None THEN Some(0) ELSE ParseFloat(parts[2])

\* parse_distance(line): Some(cm) or None.
parse_distance(line) ==
    IF ~StartsWith(line, T_distance) THEN None
    ELSE LET parts == Split(line)
         IN  IF Len(parts) < 2 THEN None ELSE ParseFloat(parts[2])

\* tok.split(":", 1): the key and the value of a token that holds a colon.
ColonAt(tok) == CHOOSE i \in 1..Len(tok) : tok[i] = ":" /\ \A j \in 1..(i - 1) : tok[j] # ":"

TokKey(tok) == SubSeq(tok, 1, ColonAt(tok) - 1)

TokValue(tok) == SubSeq(tok, ColonAt(tok) + 1, Len(tok))

HasColon(tok) == \E i \in 1..Len(tok) : tok[i] = ":"

\* The tokens of the line that hold a colon and a value float() accepts.
NumericToks(line) ==
    SelectSeq(Split(ReplaceComma(line)),
              LAMBDA tok : HasColon(tok) /\ ParseFloat(TokValue(tok)) # None)

\* The dict the loop of parse_mpu builds: every key:value token with a numeric
\* value, a later token of the same key replacing an earlier one.
MpuDict(line) ==
    LET toks == NumericToks(line)
        keys == {TokKey(toks[i]) : i \in 1..Len(toks)}
    IN  [k \in keys |->
            LET last == CHOOSE i \in 1..Len(toks) :
                            /\ TokKey(toks[i]) = k
                            /\ \A j \in (i + 1)..Len(toks) : TokKey(toks[j]) # k
            IN  Val(ParseFloat(TokValue(toks[last])))]

\* parse_mpu(line): Some(dict) or None.
parse_mpu(line) ==
    IF ~Contains(line, T_ax) \/ ~Contains(line, T_gx) THEN None
    ELSE LET vals == MpuDict(line)
         IN  IF Required \subseteq DOMAIN vals THEN Some(vals) ELSE None

\* ------------------------------------------------------------ constants

\* DT, in FP units of a second.
DT == 5

DIST_WINDOW == 5

\* DIST_JUMP_LIMIT, in cm.
DIST_JUMP_LIMIT == 30

\* EVENT_SHOW_SEC, in seconds.
EVENT_SHOW_SEC == 3

\* The release delay of the button, in FP units of a second (0.5 s).
RELEASE_AFTER == 50

\* safety_margin_cm, in cm.
safety_margin_cm == 50

\* The roll above which the compensation is shown as unbounded, in degrees.
ROLL_LIMIT_DEG == 80

\* The gyroscope's sensitivity, LSB per degree per second.
GYRO_LSB == 131

\* The offset a button event adds to the distance, in cm.
ALARM_OFFSET == 50

\* 1.0 / LOOP_RATE, the sleep of one loop iteration, in FP units of a second.
LOOP_SLEEP == 5

\* conn.settimeout(1.0), in FP units of a second.
READ_TIMEOUT == 100

\* time.sleep(1) after a socket error, in FP units of a second.
ERROR_SLEEP == 100

\* ------------------------------------------------------------ SensorState

\* SensorState(), the module-level state.
InitState ==
    [roll |-> 0,
     dist_cm |-> None,
     dist_comp_cm |-> None,
     t |-> 0,
     dist_history |-> <<>>,
     event_msg |-> None,
     event_until |-> 0,
     mpu_vals |-> None,
     button_pressed |-> FALSE,
     button_press_count |-> 0,
     last_button_event |-> 0,
     alarm_distance_cm |-> 50 * FP,
     zero_roll_deg |-> 45 * FP,
     obstacle_hit_count |-> 0,
     last_distance_for_obstacle |-> None]

\* ------------------------------------------------------------ filters

\* math.degrees(roll): ten-thousandths of a radian to FP units of a degree.
Degrees(roll) == MulDiv(roll, 180 * FP, PI)

\* atan(mn / mx) for 0 <= mn <= mx, in ten-thousandths: q * pi/4 + 0.273 * q * (1 - q),
\* exact at q = 0 and q = 1.
AtanRatio(mn, mx) ==
    LET q == IF mx = 0 THEN 0
             ELSE IF mx < 1000 THEN RoundDiv(1000 * mn, mx)
             ELSE RoundDiv(mn, RoundDiv(mx, 1000))
        qq == IF q > 1000 THEN 1000 ELSE q
    IN  RoundDiv(qq * (PI \div 4), 1000) + RoundDiv(2730 * qq * (1000 - qq), 1000000)

\* math.atan2(y, x), in ten-thousandths.
Atan2(y, x) ==
    LET ay   == Abs(y)
        ax   == Abs(x)
        base == IF ay <= ax THEN AtanRatio(ay, ax) ELSE (PI \div 2) - AtanRatio(ax, ay)
        ang  == IF x >= 0 THEN base ELSE PI - base
    IN  IF y < 0 THEN -ang ELSE ang

\* vals["gx"] / 131.0 * (math.pi / 180.0), in ten-thousandths of a radian per second.
GyroRate(gx) == MulDiv(RoundDiv(gx, GYRO_LSB), PI, 180 * FP)

\* The roll update_orientation stores.
update_orientation(roll, vals) ==
    LET accel_roll  == Atan2(vals[<<"a", "y">>], vals[<<"a", "z">>])
        gyro_step   == RoundDiv(GyroRate(vals[<<"g", "x">>]) * DT, FP)
    IN  RoundDiv(95 * (roll + gyro_step) + 5 * accel_roll, 100)

\* state.dist_history.append(raw_dist)
HistoryAppend(hist, raw_dist) == Append(hist, raw_dist)

\* smooth_distance without the eviction.
HistoryTrimNone(hist) == hist

\* if len(state.dist_history) > DIST_WINDOW: state.dist_history.pop(0)
HistoryTrim(hist) == IF Len(hist) > DIST_WINDOW THEN Tail(hist) ELSE hist

\* The lower of the two middle values in place of their mean.
MedianLow(hist) ==
    LET srt == SortSeq(hist, LAMBDA a, b : a < b)
    IN  srt[(Len(srt) + 1) \div 2]

\* statistics.median
Median(hist) ==
    LET srt == SortSeq(hist, LAMBDA a, b : a < b)
        n   == Len(srt)
    IN  IF n % 2 = 1 THEN srt[(n + 1) \div 2]
        ELSE RoundDiv(srt[n \div 2] + srt[n \div 2 + 1], 2)

\* smooth_distance without the limiting.
ClampNone(dist_cm, median_dist) == median_dist

\* The limiting of smooth_distance: the value returned for a median, given the
\* previous smoothed distance.
Clamp(dist_cm, median_dist) ==
    LET delta == median_dist - dist_cm
    IN  IF Abs(delta) > DIST_JUMP_LIMIT * FP
        THEN dist_cm + (IF delta > 0 THEN DIST_JUMP_LIMIT * FP ELSE -(DIST_JUMP_LIMIT * FP))
        ELSE median_dist

\* smooth_distance limiting the reading itself, without the median.
SmoothResultLast(dist_cm, hist) ==
    IF dist_cm = None THEN hist[Len(hist)] ELSE Clamp(Val(dist_cm), hist[Len(hist)])

\* The value smooth_distance returns once the reading is in the history.
SmoothResult(dist_cm, hist) ==
    IF dist_cm = None THEN Median(hist) ELSE Clamp(Val(dist_cm), Median(hist))

\* The compensation without the test of the roll limit.
CompensationNoLimit(roll, zero_roll_deg) == Some(Degrees(roll) - zero_roll_deg)

\* The compensation stored after a distance or an IMU line.
Compensation(roll, zero_roll_deg) ==
    IF Degrees(roll) > ROLL_LIMIT_DEG * FP THEN None
    ELSE Some(Degrees(roll) - zero_roll_deg)

\* The obstacle counter with a margin below the limit of smooth_distance.
ObstacleCountLowMargin(count, prev_dist, dist_cm) ==
    IF prev_dist # None /\ dist_cm # None
    THEN (IF Val(dist_cm) - Val(prev_dist) > (DIST_JUMP_LIMIT - 1) * FP THEN count + 1 ELSE 0)
    ELSE count

\* The obstacle counter after a distance line.
ObstacleCount(count, prev_dist, dist_cm) ==
    IF prev_dist # None /\ dist_cm # None
    THEN (IF Val(dist_cm) - Val(prev_dist) > safety_margin_cm * FP THEN count + 1 ELSE 0)
    ELSE count

\* print_status clearing the event message whether it has expired or not.
print_status_clear(s, nw) == [s EXCEPT !.event_msg = None]

\* print_status: an expired event message is cleared.
print_status(s, nw) ==
    IF s.event_msg # None /\ ~(nw < s.event_until)
    THEN [s EXCEPT !.event_msg = None]
    ELSE s

\* ------------------------------------------------------------ button events

T_pb12_pressed == T_pb12 \o <<" ">> \o T_pressed

T_button_pb12_pressed == T_button \o <<" ">> \o T_pb12_pressed

T_calibrated_colon == T_calibrated \o <<":">>

\* The button detection without its last branch.
ButtonBranchTwo(line) ==
    LET line_lower == Lower(line)
    IN  IF Contains(line_lower, T_calibrated) /\ Contains(line_lower, T_pb12) THEN 1
        ELSE IF \/ Contains(line_lower, T_button_pb12_pressed)
                \/ Contains(line_lower, T_pb12_pressed) THEN 2
        ELSE 0

\* The branch of the button detection the line takes: 1, 2 or 3 in the order of
\* the if / elif chain, 0 when none matches.
ButtonBranch(line) ==
    LET line_lower == Lower(line)
    IN  IF Contains(line_lower, T_calibrated) /\ Contains(line_lower, T_pb12) THEN 1
        ELSE IF \/ Contains(line_lower, T_button_pb12_pressed)
                \/ Contains(line_lower, T_pb12_pressed) THEN 2
        ELSE IF Contains(line_lower, T_calibrated_colon) THEN 3
        ELSE 0

\* state.event_msg of each branch.
EventMsg(branch) ==
    CASE branch = 1 -> "PB12 zero point calibrated"
      [] branch = 2 -> "PB12 button pressed"
      [] OTHER      -> "calibration event"

\* The release test with >= in place of >.
ReleasedAtLimit(s, nw) == s.button_pressed /\ nw - s.last_button_event >= RELEASE_AFTER

\* The alarm distance a button event stores: 50 + the distance when one is known.
\* AlarmKept is the event without that assignment.
AlarmKept(alarm_distance_cm, dist_cm) == alarm_distance_cm

AlarmDistance(alarm_distance_cm, dist_cm) ==
    IF dist_cm # None THEN ALARM_OFFSET * FP + Val(dist_cm) ELSE alarm_distance_cm

\* The release test: no button event on this line, the button held, and more than
\* 0.5 s since the last button event.
Released(s, nw) == s.button_pressed /\ nw - s.last_button_event > RELEASE_AFTER

\* ------------------------------------------------------------ one line under the lock

\* A button branch that does not reset the compensation.
ButtonStepsKeepComp ==
    <<"event_msg", "button_pressed", "button_press_count", "last_button_event",
      "event_until", "alarm_distance_cm", "zero_roll_deg", "print_status">>

\* A button branch that counts the press twice.
ButtonStepsTwice ==
    <<"event_msg", "button_pressed", "button_press_count", "button_press_count",
      "last_button_event", "event_until", "alarm_distance_cm", "zero_roll_deg",
      "dist_comp_zero", "print_status">>

\* The assignments of the button branches, in the order of the code.
ButtonSteps ==
    <<"event_msg", "button_pressed", "button_press_count", "last_button_event",
      "event_until", "alarm_distance_cm", "zero_roll_deg", "dist_comp_zero", "print_status">>

\* A distance branch that also moves the alarm distance.
DistanceStepsAlarm ==
    <<"release", "hist_append", "hist_trim", "dist_cm", "alarm_distance_cm", "dist_comp_cm",
      "obstacle", "print_status">>

\* The release test, then the assignments of the distance branch.
DistanceSteps ==
    <<"release", "hist_append", "hist_trim", "dist_cm", "dist_comp_cm", "obstacle", "print_status">>

\* An IMU branch that computes the compensation before it updates the roll.
ImuStepsStale == <<"release", "dist_comp_cm", "roll", "mpu_vals", "print_status", "t">>

\* The release test, then the assignments of the IMU branch.
ImuSteps == <<"release", "roll", "mpu_vals", "dist_comp_cm", "print_status", "t">>

\* The release test alone: neither parser accepts the line.
OtherSteps == <<"release">>

\* What the body of `with state.lock` evaluates of a stripped, non-empty line: the
\* branch of the button detection, parse_distance and parse_mpu.
Decode(line) ==
    [button   |-> ButtonBranch(line),
     dist_val |-> parse_distance(line),
     vals     |-> parse_mpu(line)]

\* The assignments without the `continue` that ends a button branch.
StepsFallThrough(d) ==
    (IF d.button # 0 THEN ButtonSteps ELSE <<>>)
    \o (IF d.dist_val # None THEN DistanceSteps
        ELSE IF d.vals # None THEN ImuSteps
        ELSE OtherSteps)

\* The assignments the body of `with state.lock` makes for a decoded line: a button
\* branch ends in `continue`, then the distance branch, then the IMU branch.
Steps(d) ==
    IF d.button # 0 THEN ButtonSteps
    ELSE IF d.dist_val # None THEN DistanceSteps
    ELSE IF d.vals # None THEN ImuSteps
    ELSE OtherSteps

\* One assignment: the SensorState after it. prev_dist is the local of the distance
\* branch, nw the value time.time() returns.
Apply(step, s, prev_dist, d, nw) ==
    CASE step = "event_msg" -> [s EXCEPT !.event_msg = Some(EventMsg(d.button))]
      [] step = "button_pressed" -> [s EXCEPT !.button_pressed = TRUE]
      [] step = "button_press_count" ->
            [s EXCEPT !.button_press_count = s.button_press_count + 1]
      [] step = "last_button_event" -> [s EXCEPT !.last_button_event = nw]
      [] step = "event_until" -> [s EXCEPT !.event_until = nw + EVENT_SHOW_SEC * FP]
      [] step = "alarm_distance_cm" ->
            [s EXCEPT !.alarm_distance_cm = AlarmDistance(s.alarm_distance_cm, s.dist_cm)]
      [] step = "zero_roll_deg" -> [s EXCEPT !.zero_roll_deg = Degrees(s.roll)]
      [] step = "dist_comp_zero" -> [s EXCEPT !.dist_comp_cm = Some(0)]
      [] step = "print_status" -> print_status(s, nw)
      [] step = "release" ->
            IF Released(s, nw) THEN [s EXCEPT !.button_pressed = FALSE] ELSE s
      [] step = "hist_append" ->
            [s EXCEPT !.dist_history = HistoryAppend(s.dist_history, Val(d.dist_val))]
      [] step = "hist_trim" -> [s EXCEPT !.dist_history = HistoryTrim(s.dist_history)]
      [] step = "dist_cm" -> [s EXCEPT !.dist_cm = Some(SmoothResult(s.dist_cm, s.dist_history))]
      [] step = "dist_comp_cm" ->
            [s EXCEPT !.dist_comp_cm = Compensation(s.roll, s.zero_roll_deg)]
      [] step = "obstacle" ->
            [s EXCEPT !.obstacle_hit_count =
                          ObstacleCount(s.obstacle_hit_count, prev_dist, s.dist_cm)]
      [] step = "roll" -> [s EXCEPT !.roll = update_orientation(s.roll, Val(d.vals))]
      [] step = "mpu_vals" -> [s EXCEPT !.mpu_vals = d.vals]
      [] step = "t" -> [s EXCEPT !.t = s.t + DT]

RECURSIVE RunSteps(_, _, _, _, _)
RunSteps(steps, s, prev_dist, d, nw) ==
    IF steps = <<>> THEN s
    ELSE RunSteps(Tail(steps), Apply(Head(steps), s, prev_dist, d, nw), prev_dist, d, nw)

\* The whole body of `with state.lock` for one decoded line.
process_line(s, d, nw) == RunSteps(Steps(d), s, s.dist_cm, d, nw)

\* The dict do_GET builds under the lock.
Snapshot(s, nw) ==
    [roll |-> s.roll,
     dist_cm |-> s.dist_cm,
     dist_comp_cm |-> s.dist_comp_cm,
     mpu_vals |-> s.mpu_vals,
     event_msg |-> IF s.event_msg # None /\ nw < s.event_until THEN s.event_msg ELSE None,
     event_until |-> s.event_until,
     timestamp |-> nw,
     button_pressed |-> s.button_pressed,
     button_press_count |-> s.button_press_count,
     alarm_distance_cm |-> s.alarm_distance_cm]

\* ------------------------------------------------------------ input lines

NL == <<"\n">>

RECURSIVE NatText(_)
NatText(n) == IF n < 10 THEN <<Digits[n + 1]>> ELSE NatText(n \div 10) \o <<Digits[(n % 10) + 1]>>

\* The decimal text of an integer.
DecText(n) == IF n < 0 THEN <<"-">> \o NatText(-n) ELSE NatText(n)

\* "distance: <cm>.0 cm"
DistLine(cm) == T_distance \o <<" ">> \o DecText(cm) \o <<".", "0", " ", "c", "m">>

\* "ax:<ax> ay:<ay> az:<az> gx:<gx> gy:<gy> gz:<gz>"
ImuLine(ax, ay, az, gx, gy, gz) ==
    T_ax \o DecText(ax) \o <<" ", "a", "y", ":">> \o DecText(ay)
         \o <<" ", "a", "z", ":">> \o DecText(az)
         \o <<" ">> \o T_gx \o DecText(gx) \o <<" ", "g", "y", ":">> \o DecText(gy)
         \o <<" ", "g", "z", ":">> \o DecText(gz)

\* "Calibrated via PB12"
L_calibrated_pb12 ==
    <<"C">> \o Tail(T_calibrated) \o <<" ", "v", "i", "a", " ", "P", "B", "1", "2">> \o NL

\* "Button PB12 pressed"
L_button_pressed == <<"B">> \o Tail(T_button) \o <<" ", "P", "B", "1", "2", " ">> \o T_pressed \o NL

\* "calibrated: 45.0"
L_calibrated_colon == T_calibrated_colon \o <<" ", "4", "5", ".", "0">> \o NL

\* "Calibrated: PB12 pressed": a line that holds the phrases of all three branches.
L_calibrated_all ==
    <<"C">> \o Tail(T_calibrated_colon) \o <<" ", "P", "B", "1", "2", " ">> \o T_pressed \o NL

\* "distance: 40.0 cm PB12 pressed": a button line with a valid distance prefix.
L_button_distance == DistLine(40) \o <<" ", "P", "B", "1", "2", " ">> \o T_pressed \o NL

\* A button line with a full set of IMU tokens.
L_button_imu == ImuLine(0, 16384, 0, 32767, 0, 0) \o <<" ">> \o T_calibrated_colon \o NL

L_dist40 == DistLine(40) \o NL

\* The device upright on its side, the gyroscope at the top of its 16 bit range.
L_imu_turn == ImuLine(0, 16384, 0, 32767, 0, 0) \o NL

\* The device level and at rest.
L_imu_level == ImuLine(0, 0, 16384, 0, 0, 0) \o NL

L_blank == NL

\* A line of blanks.
L_spaces == <<" ", "\t", " ">> \o NL

\* "hello"
L_unknown == <<"h", "e", "l", "l", "o">> \o NL

\* "distance: abc"
L_dist_bad == T_distance \o <<" ", "a", "b", "c">> \o NL

\* "ax:1 ay:2 gx:3": required keys missing.
L_imu_missing == T_ax \o <<"1", " ", "a", "y", ":", "2", " ">> \o T_gx \o <<"3">> \o NL

\* "ax:1 ay:2 az:x gx:3 gy:4 gz:5": a value that is no number.
L_imu_bad ==
    T_ax \o <<"1", " ", "a", "y", ":", "2", " ", "a", "z", ":", "x", " ">>
         \o T_gx \o <<"3", " ", "g", "y", ":", "4", " ", "g", "z", ":", "5">> \o NL

\* The IMU line of L_imu_turn followed by " temp:25", a key the program does not know.
L_imu_extra == ImuLine(0, 16384, 0, 32767, 0, 0) \o <<" ", "t", "e", "m", "p", ":", "2", "5">> \o NL

\* The IMU line of L_imu_level with commas between its tokens.
L_imu_comma ==
    LET txt == ImuLine(0, 0, 16384, 0, 0, 0)
    IN  [i \in 1..Len(txt) |-> IF txt[i] = " " THEN "," ELSE txt[i]] \o NL

\* "ax:0 ay:0 az:16384 gx:0 gz:0": gy is missing.
L_imu_no_gy ==
    T_ax \o <<"0", " ", "a", "y", ":", "0", " ", "a", "z", ":">> \o DecText(16384) \o <<" ">>
         \o T_gx \o <<"0", " ", "g", "z", ":", "0">> \o NL

\* A gyroscope value beyond the 16 bit range of the sensor.
L_imu_spin == ImuLine(0, 16384, 0, 600000, 0, 0) \o NL

\* "distance: abc" followed by the IMU line of L_imu_turn.
L_dist_bad_imu ==
    T_distance \o <<" ", "a", "b", "c", " ">> \o ImuLine(0, 16384, 0, 32767, 0, 0) \o NL

\* "distance:40.0": no blank after the colon, so no second token.
L_dist_nospace == T_distance \o <<"4", "0", ".", "0">> \o NL

\* ------------------------------------------------------------ bounds and input sets

\* The value of time.time() when the program starts, in FP units of a second.
StartTime == 1000

\* Loop iterations of the timed specification.
MaxCycles == 3

\* Lines of the event specification.
MaxEventLines == 5

\* Lines of the distance specification.
MaxReadings == 6

\* Lines of the orientation specification.
MaxImuLines == 7

\* Lines of the lock-level specification.
MaxConcLines == 2

\* Lines of the parsing specification.
MaxParseLines == 3

\* Lines of the expiry specification.
MaxExpiryLines == 5

\* Loop iterations of the reconnect specification.
MaxReconnectCycles == 4

\* Lines of the fair lock-level specification.
MaxFairLines == 2

\* Lines of the press-count specification.
MaxPressLines == 4

\* The time readline blocks before a line arrives, in FP units of a second: with
\* the sleep of the loop, a line 0.5 s and a line 0.55 s after the one before.
TimedWaits == {RELEASE_AFTER - LOOP_SLEEP, RELEASE_AFTER}

NoWait == {0}

\* With the sleep of the loop, a line 0.5 s and a line 1.0 s after the one before,
\* the longest wait that is no timeout.
ExpiryWaits == {RELEASE_AFTER - LOOP_SLEEP, READ_TIMEOUT - LOOP_SLEEP}

TimedLines ==
    {L_button_pressed, L_dist40, L_imu_turn, L_unknown, L_dist_bad, L_imu_missing,
     L_imu_bad, L_blank, L_spaces}

EventLines ==
    {L_calibrated_pb12, L_button_pressed, L_calibrated_colon, L_button_distance,
     L_button_imu, L_dist40, L_imu_turn}

DistLines ==
    {DistLine(40) \o NL, DistLine(100) \o NL, DistLine(160) \o NL, DistLine(161) \o NL,
     DistLine(1000) \o NL, L_button_pressed}

ImuLines == {L_imu_turn, L_imu_level, L_button_pressed, L_dist40}

ConcLines == {L_button_pressed, L_dist40, L_imu_turn}

ExpiryLines == {L_button_pressed, L_dist40, L_unknown}

ReconnectLines == {L_button_pressed, L_dist40, L_imu_turn}

FairLines == {L_button_pressed, L_dist40, L_imu_turn, L_unknown}

PressLines == {L_calibrated_all, L_button_pressed, L_calibrated_colon, L_dist40, L_unknown}

ParseLines ==
    {L_imu_turn, L_imu_level, L_imu_extra, L_imu_comma, L_imu_spin, L_imu_no_gy,
     L_imu_missing, L_imu_bad, L_dist_bad, L_dist_bad_imu, L_dist_nospace, L_dist40}

Inputs ==
    TimedLines \cup EventLines \cup DistLines \cup ImuLines \cup ConcLines \cup ParseLines
        \cup ExpiryLines \cup PressLines \cup FairLines

\* Decode(line.strip()) of every input line, evaluated once.
Decoded == [raw \in Inputs |-> Decode(Strip(raw))]

\* ------------------------------------------------------------ state

VARIABLES
    state,      \* the SensorState shared by the ingest loop and the handlers
    now,        \* time.time(), in FP units of a second
    conn,       \* read_tcp_data: conn is not None
    timed_out,  \* conn_file: a read has timed out, every later read raises OSError
    log,        \* history: the outcome of every loop iteration of read_tcp_data
    lock,       \* state.lock: its holder
    ipc,        \* read_tcp_data: where the loop stands
    idec,       \* read_tcp_data: the decoded line being processed
    istep,      \* read_tcp_data: the next assignment under the lock
    prev_dist,  \* read_tcp_data: the local prev_dist
    rpc,        \* do_GET: where each handler stands
    data,       \* do_GET: the dict of each handler
    commits     \* history: the SensorState after each `with state.lock` of the loop

vars == <<state, now, conn, timed_out, log, lock, ipc, idec, istep, prev_dist, rpc, data, commits>>

threadVars == <<lock, ipc, idec, istep, prev_dist, rpc, data, commits>>

\* The requests the web server handles in the lock-level specification.
Readers == {"get1", "get2"}

Free == "free"

Init ==
    /\ state = InitState
    /\ now = StartTime
    /\ conn = FALSE
    /\ timed_out = FALSE
    /\ log = <<>>
    /\ lock = Free
    /\ ipc = "accept"
    /\ idec = None
    /\ istep = 0
    /\ prev_dist = None
    /\ rpc = [r \in Readers |-> "idle"]
    /\ data = [r \in Readers |-> None]
    /\ commits = {InitState}

Entry(kind, raw, at) == [kind |-> kind, raw |-> raw, at |-> at]

\* ------------------------------------------------------------ the ingest loop, a line at a time

\* tcp_socket.accept() returns after waiting d.
Accept(waits) ==
    /\ ~conn
    /\ \E d \in waits : now' = now + d
    /\ conn' = TRUE
    /\ timed_out' = FALSE
    /\ UNCHANGED <<state, log, threadVars>>

\* tcp_socket.accept() raises socket.error: the outer handler sleeps and the loop
\* starts over without a connection.
AcceptError(maxn) ==
    /\ ~conn
    /\ Len(log) < maxn
    /\ now' = now + ERROR_SLEEP
    /\ log' = Append(log, Entry("accept_error", <<>>, now'))
    /\ UNCHANGED <<state, conn, timed_out, threadVars>>

\* One loop iteration in which readline returns a line: the sleep, the wait for the
\* line, strip, and for a non-empty line the whole body of `with state.lock`.
ReadLine(raws, waits, maxn) ==
    /\ conn
    /\ ~timed_out
    /\ Len(log) < maxn
    /\ \E raw \in raws, d \in waits :
          LET nw == now + LOOP_SLEEP + d
          IN  /\ now' = nw
              /\ state' = IF Strip(raw) = <<>> THEN state
                          ELSE process_line(state, Decoded[raw], nw)
              /\ log' = Append(log, Entry("line", raw, nw))
    /\ UNCHANGED <<conn, timed_out, threadVars>>

\* One loop iteration in which readline raises socket.timeout. The socket file
\* refuses every read after a timeout, and the loop keeps the connection.
ReadTimeout(maxn) ==
    /\ conn
    /\ ~timed_out
    /\ Len(log) < maxn
    /\ now' = now + LOOP_SLEEP + READ_TIMEOUT
    /\ timed_out' = TRUE
    /\ log' = Append(log, Entry("timeout", <<>>, now'))
    /\ UNCHANGED <<state, conn, threadVars>>

\* A disconnect that starts over from a fresh SensorState.
ReadEofReset(waits, maxn) ==
    /\ conn
    /\ ~timed_out
    /\ Len(log) < maxn
    /\ \E d \in waits : now' = now + LOOP_SLEEP + d
    /\ conn' = FALSE
    /\ state' = InitState
    /\ log' = Append(log, Entry("eof", <<>>, now'))
    /\ UNCHANGED <<timed_out, threadVars>>

\* One loop iteration in which readline returns "": the connection is dropped.
ReadEof(waits, maxn) ==
    /\ conn
    /\ ~timed_out
    /\ Len(log) < maxn
    /\ \E d \in waits : now' = now + LOOP_SLEEP + d
    /\ conn' = FALSE
    /\ log' = Append(log, Entry("eof", <<>>, now'))
    /\ UNCHANGED <<state, timed_out, threadVars>>

\* One loop iteration in which readline raises another exception, which the inner
\* `except Exception: pass` swallows: a reset by the peer, or any read after a
\* timeout.
ReadError(waits, maxn) ==
    /\ conn
    /\ Len(log) < maxn
    /\ \E d \in waits : now' = now + LOOP_SLEEP + d
    /\ log' = Append(log, Entry("error", <<>>, now'))
    /\ UNCHANGED <<state, conn, timed_out, threadVars>>

\* The timed specification: lines of every kind, 0.5 s or 0.55 s apart.
Next ==
    \/ Accept(TimedWaits)
    \/ ReadLine(TimedLines, TimedWaits, MaxCycles)
    \/ ReadTimeout(MaxCycles)
    \/ ReadEof(TimedWaits, MaxCycles)
    \/ ReadError(TimedWaits, MaxCycles)

Spec == Init /\ [][Next]_vars

\* The event specification: button lines of every pattern among distance and IMU lines.
NextEvent ==
    \/ Accept(NoWait)
    \/ ReadLine(EventLines, NoWait, MaxEventLines)

SpecEvent == Init /\ [][NextEvent]_vars

\* The distance specification: distance readings of several magnitudes.
NextDist ==
    \/ Accept(NoWait)
    \/ ReadLine(DistLines, NoWait, MaxReadings)

SpecDist == Init /\ [][NextDist]_vars

\* The orientation specification: IMU readings that turn the roll past the limit.
NextImu ==
    \/ Accept(NoWait)
    \/ ReadLine(ImuLines, NoWait, MaxImuLines)

SpecImu == Init /\ [][NextImu]_vars

\* The reconnect specification: lines among disconnects, timeouts, read errors and
\* failed and successful accepts.
NextReconnect ==
    \/ Accept(NoWait)
    \/ AcceptError(MaxReconnectCycles)
    \/ ReadLine(ReconnectLines, NoWait, MaxReconnectCycles)
    \/ ReadTimeout(MaxReconnectCycles)
    \/ ReadEof(NoWait, MaxReconnectCycles)
    \/ ReadError(NoWait, MaxReconnectCycles)

SpecReconnect == Init /\ [][NextReconnect]_vars

\* The parsing specification: lines the parsers accept and lines they refuse.
NextParse ==
    \/ Accept(NoWait)
    \/ ReadLine(ParseLines, NoWait, MaxParseLines)

SpecParse == Init /\ [][NextParse]_vars

\* The expiry specification: lines up to a second apart, for more than three
\* seconds after a button line.
NextExpiry ==
    \/ Accept(ExpiryWaits)
    \/ ReadLine(ExpiryLines, ExpiryWaits, MaxExpiryLines)

SpecExpiry == Init /\ [][NextExpiry]_vars

\* The press-count specification: button lines 0.05 s apart, one of them with the
\* phrases of all three branches, among lines that are no button lines.
NextPress ==
    \/ Accept(NoWait)
    \/ ReadLine(PressLines, NoWait, MaxPressLines)

SpecPress == Init /\ [][NextPress]_vars

\* ------------------------------------------------------------ the threads, a step at a time

\* A `with` that does not wait for the lock.
LockIgnored == TRUE

\* threading.Lock: acquire proceeds only while no thread holds the lock.
LockFree == lock = Free

\* read_tcp_data: accept returns.
IngestAccept ==
    /\ ipc = "accept"
    /\ conn' = TRUE
    /\ timed_out' = FALSE
    /\ ipc' = "sleep"
    /\ UNCHANGED <<state, now, log, lock, idec, istep, prev_dist, rpc, data, commits>>

\* read_tcp_data: time.sleep(1.0 / LOOP_RATE).
IngestSleep ==
    /\ ipc = "sleep"
    /\ now' = now + LOOP_SLEEP
    /\ ipc' = "readline"
    /\ UNCHANGED <<state, conn, timed_out, log, lock, idec, istep, prev_dist, rpc, data, commits>>

\* read_tcp_data: readline returns a line; an empty line after strip ends the iteration.
IngestReadLine(raws, maxn) ==
    /\ ipc = "readline"
    /\ ~timed_out
    /\ Len(log) < maxn
    /\ \E raw \in raws :
          /\ log' = Append(log, Entry("line", raw, now))
          /\ IF Strip(raw) = <<>>
             THEN ipc' = "sleep" /\ idec' = idec
             ELSE ipc' = "lock" /\ idec' = Some(Decoded[raw])
    /\ UNCHANGED <<state, now, conn, timed_out, lock, istep, prev_dist, rpc, data, commits>>

\* read_tcp_data: readline raises socket.timeout.
IngestTimeout(maxn) ==
    /\ ipc = "readline"
    /\ ~timed_out
    /\ Len(log) < maxn
    /\ now' = now + READ_TIMEOUT
    /\ timed_out' = TRUE
    /\ log' = Append(log, Entry("timeout", <<>>, now'))
    /\ ipc' = "sleep"
    /\ UNCHANGED <<state, conn, lock, idec, istep, prev_dist, rpc, data, commits>>

\* read_tcp_data: readline returns "".
IngestEof(maxn) ==
    /\ ipc = "readline"
    /\ ~timed_out
    /\ Len(log) < maxn
    /\ log' = Append(log, Entry("eof", <<>>, now))
    /\ conn' = FALSE
    /\ ipc' = "accept"
    /\ UNCHANGED <<state, now, timed_out, lock, idec, istep, prev_dist, rpc, data, commits>>

\* read_tcp_data: readline raises another exception, which is swallowed.
IngestError(maxn) ==
    /\ ipc = "readline"
    /\ Len(log) < maxn
    /\ log' = Append(log, Entry("error", <<>>, now))
    /\ ipc' = "sleep"
    /\ UNCHANGED <<state, now, conn, timed_out, lock, idec, istep, prev_dist, rpc, data, commits>>

\* read_tcp_data: `with state.lock` is entered. prev_dist is the dist_cm the distance
\* branch reads before it assigns any field.
IngestAcquire ==
    /\ ipc = "lock"
    /\ LockFree
    /\ lock' = "ingest"
    /\ ipc' = "run"
    /\ istep' = 1
    /\ prev_dist' = state.dist_cm
    /\ UNCHANGED <<state, now, conn, timed_out, log, idec, rpc, data, commits>>

\* read_tcp_data: the next assignment under the lock.
IngestStep ==
    /\ ipc = "run"
    /\ istep <= Len(Steps(Val(idec)))
    /\ state' = Apply(Steps(Val(idec))[istep], state, prev_dist, Val(idec), now)
    /\ istep' = istep + 1
    /\ UNCHANGED <<now, conn, timed_out, log, lock, ipc, idec, prev_dist, rpc, data, commits>>

\* The loop going back to sleep with the lock still held.
IngestReleaseKeeps ==
    /\ ipc = "run"
    /\ istep > Len(Steps(Val(idec)))
    /\ ipc' = "sleep"
    /\ idec' = None
    /\ istep' = 0
    /\ prev_dist' = None
    /\ commits' = commits \cup {state}
    /\ UNCHANGED <<state, now, conn, timed_out, log, lock, rpc, data>>

\* read_tcp_data: `with state.lock` is left, by `continue` or at its end.
IngestRelease ==
    /\ ipc = "run"
    /\ istep > Len(Steps(Val(idec)))
    /\ lock' = Free
    /\ ipc' = "sleep"
    /\ idec' = None
    /\ istep' = 0
    /\ prev_dist' = None
    /\ commits' = commits \cup {state}
    /\ UNCHANGED <<state, now, conn, timed_out, log, rpc, data>>

\* do_GET: a request for /api/data; the response headers are sent. The server
\* handles one request at a time.
GetData(r) ==
    /\ \A q \in Readers : rpc[q] = "idle"
    /\ rpc' = [rpc EXCEPT ![r] = "lock"]
    /\ UNCHANGED <<state, now, conn, timed_out, log, lock, ipc, idec, istep, prev_dist, data, commits>>

\* do_GET: a request for the page or for an unknown path.
GetOther(r) ==
    /\ \A q \in Readers : rpc[q] = "idle"
    /\ rpc' = [rpc EXCEPT ![r] = "write"]
    /\ UNCHANGED <<state, now, conn, timed_out, log, lock, ipc, idec, istep, prev_dist, data, commits>>

\* do_GET: `with state.lock` is entered.
ReaderAcquire(r) ==
    /\ rpc[r] = "lock"
    /\ LockFree
    /\ lock' = r
    /\ rpc' = [rpc EXCEPT ![r] = "copy"]
    /\ UNCHANGED <<state, now, conn, timed_out, log, ipc, idec, istep, prev_dist, data, commits>>

\* do_GET clearing the event message as it copies the fields.
ReaderCopyClears(r) ==
    /\ rpc[r] = "copy"
    /\ data' = [data EXCEPT ![r] = Some(Snapshot(state, now))]
    /\ state' = [state EXCEPT !.event_msg = None]
    /\ rpc' = [rpc EXCEPT ![r] = "unlock"]
    /\ UNCHANGED <<now, conn, timed_out, log, lock, ipc, idec, istep, prev_dist, commits>>

\* do_GET: the fields are copied into data.
ReaderCopy(r) ==
    /\ rpc[r] = "copy"
    /\ data' = [data EXCEPT ![r] = Some(Snapshot(state, now))]
    /\ rpc' = [rpc EXCEPT ![r] = "unlock"]
    /\ UNCHANGED <<state, now, conn, timed_out, log, lock, ipc, idec, istep, prev_dist, commits>>

\* do_GET with the response written inside `with state.lock`.
ReaderReleaseLate(r) ==
    /\ rpc[r] = "unlock"
    /\ rpc' = [rpc EXCEPT ![r] = "write"]
    /\ UNCHANGED <<state, now, conn, timed_out, log, lock, ipc, idec, istep, prev_dist, data, commits>>

\* do_GET: `with state.lock` is left.
ReaderRelease(r) ==
    /\ rpc[r] = "unlock"
    /\ lock' = Free
    /\ rpc' = [rpc EXCEPT ![r] = "write"]
    /\ UNCHANGED <<state, now, conn, timed_out, log, ipc, idec, istep, prev_dist, data, commits>>

\* do_GET: the response body is written and the handler returns.
ReaderWrite(r) ==
    /\ rpc[r] = "write"
    /\ rpc' = [rpc EXCEPT ![r] = "idle"]
    /\ data' = [data EXCEPT ![r] = None]
    /\ UNCHANGED <<state, now, conn, timed_out, log, lock, ipc, idec, istep, prev_dist, commits>>

\* The lock-level specification: the ingest loop and the handlers interleaved.
NextConc ==
    \/ IngestAccept
    \/ IngestSleep
    \/ IngestReadLine(ConcLines, MaxConcLines)
    \/ IngestTimeout(MaxConcLines)
    \/ IngestEof(MaxConcLines)
    \/ IngestError(MaxConcLines)
    \/ IngestAcquire
    \/ IngestStep
    \/ IngestRelease
    \/ \E r \in Readers : GetData(r)
    \/ \E r \in Readers : GetOther(r)
    \/ \E r \in Readers : ReaderAcquire(r)
    \/ \E r \in Readers : ReaderCopy(r)
    \/ \E r \in Readers : ReaderRelease(r)
    \/ \E r \in Readers : ReaderWrite(r)

SpecConc == Init /\ [][NextConc]_vars

\* The running threads make progress: a handler that can take a step takes it, and
\* so does the ingest loop inside `with state.lock`, where it calls nothing that
\* blocks. Nothing makes accept or readline return, nor a request arrive.
SpecConcLive ==
    /\ SpecConc
    /\ \A r \in Readers :
          WF_vars(ReaderAcquire(r) \/ ReaderCopy(r) \/ ReaderRelease(r) \/ ReaderWrite(r))
    /\ WF_vars(IngestStep \/ IngestRelease)

\* An exception that leaves the block without releasing the lock, as after a bare
\* acquire() with no try/finally.
IngestInterruptKeeps ==
    /\ ipc = "run"
    /\ ipc' = "done"
    /\ idec' = None
    /\ istep' = 0
    /\ prev_dist' = None
    /\ UNCHANGED <<state, now, conn, timed_out, log, lock, rpc, data, commits>>

\* read_tcp_data: KeyboardInterrupt is raised inside `with state.lock`, before any
\* of its assignments or after it: `with` releases the lock as the exception
\* leaves the block, and the handler of line 772 ends the loop.
IngestInterrupt ==
    /\ ipc = "run"
    /\ lock' = Free
    /\ ipc' = "done"
    /\ idec' = None
    /\ istep' = 0
    /\ prev_dist' = None
    /\ UNCHANGED <<state, now, conn, timed_out, log, rpc, data, commits>>

\* The lock-level specification with lines of all four branches and with the
\* exception inside the block.
NextConcFair ==
    \/ IngestAccept
    \/ IngestSleep
    \/ IngestReadLine(FairLines, MaxFairLines)
    \/ IngestTimeout(MaxFairLines)
    \/ IngestEof(MaxFairLines)
    \/ IngestError(MaxFairLines)
    \/ IngestAcquire
    \/ IngestStep
    \/ IngestRelease
    \/ IngestInterrupt
    \/ \E r \in Readers : GetData(r)
    \/ \E r \in Readers : GetOther(r)
    \/ \E r \in Readers : ReaderAcquire(r)
    \/ \E r \in Readers : ReaderCopy(r)
    \/ \E r \in Readers : ReaderRelease(r)
    \/ \E r \in Readers : ReaderWrite(r)

\* Fair scheduling: a running thread takes its next step, and a thread that waits
\* for the lock gets it if the lock is free again and again. Each thread blocks
\* between two of its acquisitions, the loop in sleep and readline, the server in
\* the write of the response and the accept of the next request.
SpecConcFair ==
    /\ Init /\ [][NextConcFair]_vars
    /\ \A r \in Readers : WF_vars(ReaderCopy(r) \/ ReaderRelease(r) \/ ReaderWrite(r))
    /\ \A r \in Readers : SF_vars(ReaderAcquire(r))
    /\ WF_vars(IngestStep \/ IngestRelease)
    /\ SF_vars(IngestAcquire)

\* ------------------------------------------------------------ claims

LastEntry(lg) == lg[Len(lg)]

\* The raw lines the loop has read so far, in order.
RawLog == [i \in 1..Len(log) |-> log[i].raw]

\* This step is a loop iteration that read one of the lines raws.
Reads(raws) ==
    /\ Len(log') = Len(log) + 1
    /\ LastEntry(log').kind = "line"
    /\ LastEntry(log').raw \in raws

\* C1: every dict a handler holds is the snapshot of the SensorState as it stood
\* after some whole number of fully processed lines, never of a state between two
\* assignments of one line.
SnapshotAtomic ==
    \A r \in Readers :
        data[r] # None =>
            \E c \in commits : Val(data[r]) = Snapshot(c, Val(data[r]).timestamp)

\* C1 witness: a handler holds the snapshot taken after a button line while the
\* ingest loop is in the middle of the next line.
SnapshotAtomicSeen ==
    /\ ipc = "run"
    /\ istep > 1
    /\ istep <= Len(Steps(Val(idec)))
    /\ \E r \in Readers :
          /\ data[r] # None
          /\ Val(data[r]).button_press_count = 1

\* The lines that are empty once stripped.
EmptyLines == {L_blank, L_spaces}

\* Lines neither parser nor the button detection accepts, and the empty lines.
MalformedLines == {L_unknown, L_dist_bad, L_imu_missing, L_imu_bad} \cup EmptyLines

\* C2 as stated: processing a malformed, unrecognized or empty line leaves every
\* field of SensorState unchanged.
MalformedChangesNothing == [][Reads(MalformedLines) => state' = state]_vars

\* C2 amended: such a line leaves every field unchanged but button_pressed, which a
\* non-empty line clears when it is processed more than 0.5 s after the last button
\* event; an empty line changes nothing.
MalformedOnlyReleases ==
    [][Reads(MalformedLines) =>
          state' = [state EXCEPT !.button_pressed =
                        IF /\ LastEntry(log').raw \notin EmptyLines
                           /\ now' - state.last_button_event > RELEASE_AFTER
                        THEN FALSE ELSE @]]_vars

\* C2 witness: an unrecognized line read 0.55 s after a button line has released the
\* button and nothing else has changed since the button line.
MalformedReleaseSeen ==
    /\ Len(log) = 2
    /\ log[1].raw = L_button_pressed
    /\ log[2].raw \in MalformedLines \ EmptyLines
    /\ ~state.button_pressed
    /\ state = [process_line(InitState, Decoded[L_button_pressed], log[1].at)
                   EXCEPT !.button_pressed = FALSE]

\* The distance readings of the distance specification, in cm.
DistValues == {40, 100, 160, 161, 1000}

\* C3: a distance reading moves dist_cm by at most 30 cm when a smoothed value
\* exists, and the first reading is stored as it is.
SlewBounded ==
    [][\A v \in DistValues :
          Reads({DistLine(v) \o NL}) =>
              /\ state'.dist_cm # None
              /\ IF state.dist_cm = None
                 THEN Val(state'.dist_cm) = v * FP
                 ELSE Abs(Val(state'.dist_cm) - Val(state.dist_cm)) <= 30 * FP]_vars

\* C3 witness: the window is full and has evicted its oldest reading; after 40, 40,
\* 40, 160, 160, 160 the median is 160 and dist_cm was limited to 130 on the way.
SlewBoundedSeen ==
    /\ state.dist_history = <<40 * FP, 40 * FP, 160 * FP, 160 * FP, 160 * FP>>
    /\ Len(log) = 6
    /\ state.dist_cm = Some(130 * FP)

\* C4 as stated: from the initial state, a button line and then a reading of 40 cm
\* leave alarm_distance_cm at 90.
ButtonThenDistance ==
    RawLog = <<L_button_pressed, DistLine(40) \o NL>> => state.alarm_distance_cm = 90 * FP

\* C4 amended: a reading of 40 cm and then a button line leave alarm_distance_cm at
\* 90; a button line and then a reading of 40 cm leave it at its initial 50.
DistanceThenButton ==
    /\ RawLog = <<DistLine(40) \o NL, L_button_pressed>> => state.alarm_distance_cm = 90 * FP
    /\ RawLog = <<L_button_pressed, DistLine(40) \o NL>> => state.alarm_distance_cm = 50 * FP

\* C4 witness: the reading of 40 cm and then the button line have been processed.
DistanceThenButtonSeen ==
    /\ RawLog = <<DistLine(40) \o NL, L_button_pressed>>
    /\ state.dist_cm = Some(40 * FP)
    /\ state.button_press_count = 1

\* C5 as stated: in every state dist_comp_cm is None exactly when degrees(roll) > 80.
SentinelIffSteep == state.dist_comp_cm = None <=> Degrees(state.roll) > 80 * FP

\* C5 amended: right after a distance or an IMU line dist_comp_cm is None exactly
\* when degrees(roll) > 80, whatever the distance; it is None in the initial state,
\* where the roll is 0, and 0 right after a button line, whatever the roll.
SentinelAfterReading ==
    /\ log = <<>> => state.dist_comp_cm = None /\ state.roll = 0
    /\ log # <<>> /\ LastEntry(log).raw \in {L_imu_turn, L_imu_level, L_dist40} =>
          (state.dist_comp_cm = None <=> Degrees(state.roll) > 80 * FP)
    /\ log # <<>> /\ LastEntry(log).raw = L_button_pressed => state.dist_comp_cm = Some(0)

\* C5 witness: a distance line processed with the roll above 80 degrees has stored None.
SentinelAfterReadingSeen ==
    /\ log # <<>>
    /\ LastEntry(log).raw = L_dist40
    /\ Degrees(state.roll) > 80 * FP
    /\ state.dist_comp_cm = None

\* The lines of the timed specification that are no button event and not empty.
NonEventLines == {L_dist40, L_imu_turn, L_unknown, L_dist_bad, L_imu_missing, L_imu_bad}

\* C6: while lines are processed no later than 0.5 s after the last button event
\* button_pressed stays true, and it turns false only in a step that processes a
\* non-event line more than 0.5 s after the last button event.
ButtonHeld ==
    [][/\ state.button_pressed /\ now' - state.last_button_event <= 50 =>
              state'.button_pressed
       /\ state.button_pressed /\ ~state'.button_pressed =>
              /\ Reads(NonEventLines)
              /\ now' - state.last_button_event > 50]_vars

\* C6 witness: a non-event line processed exactly 0.5 s after the button event has
\* left the button pressed.
ButtonHeldSeen ==
    /\ Len(log) >= 2
    /\ log[Len(log) - 1].raw = L_button_pressed
    /\ LastEntry(log).raw \in NonEventLines
    /\ LastEntry(log).at - state.last_button_event = 50
    /\ state.button_pressed

\* C7: once a loop iteration of any kind (a line, an empty line, a timeout, a
\* disconnect) has run more than 0.5 s after the last button event, button_pressed
\* is false.
ButtonReleasedByAnyCycle ==
    log # <<>> /\ LastEntry(log).at - state.last_button_event > 50 => ~state.button_pressed

\* C8: after the readings 100, 100, 160 obstacle_hit_count is 1, and after a
\* following 161 it is 0.
ObstacleScenario ==
    /\ RawLog = <<DistLine(100) \o NL, DistLine(100) \o NL, DistLine(160) \o NL>> =>
          state.obstacle_hit_count = 1
    /\ RawLog = <<DistLine(100) \o NL, DistLine(100) \o NL, DistLine(160) \o NL,
                  DistLine(161) \o NL>> =>
          state.obstacle_hit_count = 0

\* The lines of the event specification that hold a button phrase.
ButtonLines ==
    {L_calibrated_pb12, L_button_pressed, L_calibrated_colon, L_button_distance, L_button_imu}

\* C9: a button line of any of the three patterns sets button_pressed, adds one to
\* button_press_count, sets last_button_event to the time and event_until to the
\* time + 3 s, sets alarm_distance_cm to 50 + dist_cm when dist_cm is known and
\* leaves it otherwise, sets zero_roll_deg to degrees(roll) and dist_comp_cm to 0.
ButtonEventEffect ==
    [][Reads(ButtonLines) =>
          /\ state'.button_pressed
          /\ state'.button_press_count = state.button_press_count + 1
          /\ state'.last_button_event = now'
          /\ state'.event_until = now' + 3 * FP
          /\ state'.alarm_distance_cm =
                IF state.dist_cm = None THEN state.alarm_distance_cm
                ELSE 50 * FP + Val(state.dist_cm)
          /\ state'.zero_roll_deg = Degrees(state.roll)
          /\ state'.dist_comp_cm = Some(0)]_vars

\* C9 witness: button lines of all three patterns have been processed, the last
\* with a distance known and the roll off zero.
ButtonEventEffectSeen ==
    /\ {L_calibrated_pb12, L_button_pressed, L_calibrated_colon}
           \subseteq {RawLog[i] : i \in 1..Len(log)}
    /\ log # <<>>
    /\ LastEntry(log).raw = L_calibrated_colon
    /\ state.dist_cm # None
    /\ state.alarm_distance_cm = 90 * FP
    /\ state.zero_roll_deg # 0
    /\ state.button_press_count >= 1

\* C10: a button line is not also processed as a distance or an IMU line, even when
\* it starts with a valid distance or holds all six IMU tokens: dist_cm,
\* dist_history, roll, mpu_vals, obstacle_hit_count and t stay as they are.
ButtonLineNotReparsed ==
    [][Reads(ButtonLines) =>
          /\ state'.dist_cm = state.dist_cm
          /\ state'.dist_history = state.dist_history
          /\ state'.roll = state.roll
          /\ state'.mpu_vals = state.mpu_vals
          /\ state'.obstacle_hit_count = state.obstacle_hit_count
          /\ state'.t = state.t]_vars

\* C10 witness: the button line with the distance prefix and the button line with
\* the IMU tokens have both been processed as button events and as nothing else.
ButtonLineNotReparsedSeen ==
    /\ RawLog = <<L_button_distance, L_button_imu>>
    /\ state.button_press_count = 2
    /\ state.dist_history = <<>>
    /\ state.mpu_vals = None
    /\ state.t = 0

\* The positions at which the ingest loop waits: in accept, in sleep, in readline,
\* and for the lock.
IngestWaiting == {"accept", "sleep", "readline", "lock"}

\* C11: a handler holds state.lock only while it copies the fields: it holds no
\* lock when it sends the headers, waits for the lock or writes the response, and
\* the ingest loop holds the lock only while it applies a line, never in accept,
\* sleep or readline.
LockOnlyWhileCopying ==
    /\ \A r \in Readers : lock = r <=> rpc[r] \in {"copy", "unlock"}
    /\ lock = "ingest" <=> ipc = "run"

\* C11 witness: a handler that has copied the fields is writing its response while
\* the ingest loop holds the lock in the middle of a line.
LockOnlyWhileCopyingSeen ==
    /\ lock = "ingest"
    /\ istep > 1
    /\ \E r \in Readers : rpc[r] = "write" /\ data[r] # None

\* C12: the ingest loop holds no lock while it waits in accept, sleep or readline,
\* and a handler that asks for the lock gets it, copies the fields and finishes
\* its response, whether or not a line ever arrives.
IngestWaitsUnlocked ==
    /\ [](ipc \in IngestWaiting => lock # "ingest")
    /\ \A r \in Readers : (rpc[r] = "lock") ~> (rpc[r] = "idle")

\* C12 witness: no line has arrived yet, the ingest loop is in readline, and a
\* handler has taken the lock, copied the fields and released it.
IngestWaitsUnlockedSeen ==
    /\ log = <<>>
    /\ ipc = "readline"
    /\ lock = Free
    /\ \E r \in Readers : rpc[r] = "write" /\ data[r] # None

\* The SensorState that results from s by processing the lines among the entries
\* lg, each at its time, and nothing for any other entry.
RECURSIVE Replay(_, _)
Replay(lg, s) ==
    IF lg = <<>> THEN s
    ELSE LET e == Head(lg)
         IN  Replay(Tail(lg),
                    IF e.kind = "line" /\ Strip(e.raw) # <<>>
                    THEN process_line(s, Decoded[e.raw], e.at)
                    ELSE s)

\* C13: a disconnect, a socket error, a timeout and the accept of a new connection
\* leave every field of SensorState as it is: the state is always the one the
\* lines read so far produce from the initial state, whatever connections they
\* came over.
ReconnectKeepsState ==
    /\ [](state = Replay(log, InitState))
    /\ [][conn' # conn => state' = state]_vars

\* C13 witness: a reading of 40 cm, a disconnect, a failed accept, a new connection
\* and a second reading of 40 cm: the history holds both readings.
ReconnectKeepsStateSeen ==
    /\ Len(log) = 4
    /\ log[1].raw = L_dist40
    /\ log[2].kind = "eof"
    /\ log[3].kind = "accept_error"
    /\ log[4].raw = L_dist40
    /\ conn
    /\ state.dist_history = <<40 * FP, 40 * FP>>
    /\ state.dist_cm = Some(40 * FP)

\* The lines of the parsing specification that start with "distance:" and have no
\* numeric second token.
BadDistanceLines == {L_dist_bad, L_dist_bad_imu, L_dist_nospace}

\* C14: a line that starts with "distance:" and has no numeric second token runs
\* neither filter, whatever else it holds: roll, mpu_vals, dist_cm and
\* dist_history stay as they are.
BadDistanceUnrecognized ==
    [][Reads(BadDistanceLines) =>
          /\ state'.roll = state.roll
          /\ state'.mpu_vals = state.mpu_vals
          /\ state'.dist_cm = state.dist_cm
          /\ state'.dist_history = state.dist_history]_vars

\* The six values of an IMU reading, in FP units, by key.
Six(ax, ay, az, gx, gy, gz) ==
    (<<"a", "x">> :> ax * FP) @@ (<<"a", "y">> :> ay * FP) @@ (<<"a", "z">> :> az * FP)
    @@ (<<"g", "x">> :> gx * FP) @@ (<<"g", "y">> :> gy * FP) @@ (<<"g", "z">> :> gz * FP)

SixKeys == DOMAIN Six(0, 0, 0, 0, 0, 0)

\* The lines of the parsing specification that are no distance reading and hold
\* all six keys with a numeric value, and the reading each of them carries.
CompleteImu ==
    (L_imu_turn :> Six(0, 16384, 0, 32767, 0, 0))
    @@ (L_imu_extra :> Six(0, 16384, 0, 32767, 0, 0))
    @@ (L_dist_bad_imu :> Six(0, 16384, 0, 32767, 0, 0))
    @@ (L_imu_level :> Six(0, 0, 16384, 0, 0, 0))
    @@ (L_imu_comma :> Six(0, 0, 16384, 0, 0, 0))
    @@ (L_imu_spin :> Six(0, 16384, 0, 600000, 0, 0))

\* The lines of the parsing specification that are no distance reading and lack
\* one of the six keys or hold it with a value that is no number.
IncompleteImu == {L_imu_no_gy, L_imu_missing, L_imu_bad, L_dist_bad, L_dist_nospace}

\* C15: a line that is neither a button event nor a distance reading is processed
\* as an IMU reading exactly when it holds all six keys in key:value tokens with
\* numeric values: then roll is updated from its six values, they are stored in
\* mpu_vals and t advances by DT; otherwise roll, mpu_vals and t stay as they are.
ImuIffComplete ==
    [][/\ \A raw \in DOMAIN CompleteImu :
              Reads({raw}) =>
                  /\ state'.roll = update_orientation(state.roll, CompleteImu[raw])
                  /\ state'.mpu_vals # None
                  /\ \A k \in SixKeys : Val(state'.mpu_vals)[k] = CompleteImu[raw][k]
                  /\ state'.t = state.t + DT
       /\ Reads(IncompleteImu) =>
              /\ state'.roll = state.roll
              /\ state'.mpu_vals = state.mpu_vals
              /\ state'.t = state.t]_vars

\* C15 witness: the comma separated IMU line has been processed after a line that
\* lacks gy and a line with a value that is no number, which changed nothing.
ImuIffCompleteSeen ==
    /\ RawLog = <<L_imu_no_gy, L_imu_bad, L_imu_comma>>
    /\ state.t = DT
    /\ state.mpu_vals # None
    /\ Val(state.mpu_vals)[<<"a", "z">>] = 16384 * FP

\* C16: from every state, the IMU line with the unknown key temp and the IMU line
\* with the same six values and no other key leave the same SensorState and the
\* same snapshot.
ExtraKeysIgnored ==
    LET plain == process_line(state, Decoded[L_imu_turn], now)
        extra == process_line(state, Decoded[L_imu_extra], now)
    IN  /\ extra = plain
        /\ Snapshot(extra, now) = Snapshot(plain, now)

\* C17: roll lies in (-pi, pi] in every state, and the reading ay = 0, az > 0,
\* gx = 0 never increases |roll|.
RollBounded ==
    /\ [](-PI < state.roll /\ state.roll <= PI)
    /\ [][Reads({L_imu_level}) => Abs(state'.roll) <= Abs(state.roll)]_vars

\* C18: zero_roll_deg and alarm_distance_cm change only in a step that processes a
\* button line: no distance line, IMU line, unrecognized or empty line, timeout,
\* read error, disconnect or accept changes either.
CalibrationOnlyByButton ==
    [][(state'.zero_roll_deg # state.zero_roll_deg
           \/ state'.alarm_distance_cm # state.alarm_distance_cm)
       => Reads({L_button_pressed})]_vars

\* C18 witness: a button line after a reading of 40 cm has set the alarm distance
\* to 90 and the zero reference to 0, and an IMU line that turned the roll
\* has left both.
CalibrationOnlyByButtonSeen ==
    /\ RawLog = <<L_dist40, L_button_pressed, L_imu_turn>>
    /\ state.alarm_distance_cm = 90 * FP
    /\ state.zero_roll_deg = 0
    /\ state.roll > 0

\* The time at which the last button line was processed.
LastButtonAt ==
    LET idx == {i \in 1..Len(log) : log[i].raw = L_button_pressed}
    IN  log[CHOOSE i \in idx : \A j \in idx : j <= i].at

\* The times at which a handler can take a snapshot of the present state: from now
\* until the next loop iteration ends.
SnapshotTimes == now..(now + LOOP_SLEEP + READ_TIMEOUT)

\* C19: once a button line has been processed, at time T for the last of them, a
\* snapshot taken at time t reports an event message exactly when t < T + 3 s,
\* whatever lines were processed since.
EventMsgExpiry ==
    (\E i \in 1..Len(log) : log[i].raw = L_button_pressed) =>
        \A t \in SnapshotTimes :
            Snapshot(state, t).event_msg # None <=> t < LastButtonAt + 3 * FP

\* C19 witness: three seconds after the button line the message is still stored,
\* only unrecognized lines having been read, and the snapshot does not report it.
EventMsgExpirySeen ==
    /\ Len(log) >= 4
    /\ log[1].raw = L_button_pressed
    /\ now >= LastButtonAt + 3 * FP
    /\ state.button_press_count = 1
    /\ state.event_msg # None
    /\ Snapshot(state, now).event_msg = None

\* The entries of the log whose line, if any, the loop has finished with: all but
\* the last while the loop waits for the lock or applies that line.
Applied == IF ipc \in {"lock", "run"} THEN SubSeq(log, 1, Len(log) - 1) ELSE log

\* C20: only the ingest loop changes SensorState, inside `with state.lock`, and it
\* applies the lines one at a time in the order they were read: outside the lock
\* the state is the one the lines finished so far produce in that order, and no
\* step of a handler, for /api/data or any other path, changes a field.
SingleWriter ==
    /\ [](ipc # "run" => state = Replay(Applied, InitState))
    /\ [][state' # state =>
              /\ lock = "ingest"
              /\ ipc = "run"
              /\ rpc' = rpc
              /\ data' = data]_vars

\* C20 witness: a reading of 40 cm and then a button line have been applied, and a
\* handler has since copied the fields and is writing its response.
SingleWriterSeen ==
    /\ RawLog = <<L_dist40, L_button_pressed>>
    /\ ipc = "sleep"
    /\ state.alarm_distance_cm = 90 * FP
    /\ \E r \in Readers :
          /\ rpc[r] = "write"
          /\ data[r] # None
          /\ Val(data[r]).alarm_distance_cm = 90 * FP

\* The reading each distance line of the distance specification carries, in FP units.
ReadingOf == [v \in DistValues |-> v * FP]

\* The readings of the distance lines read so far, in the order read.
RECURSIVE ReadingsIn(_)
ReadingsIn(lg) ==
    IF lg = <<>> THEN <<>>
    ELSE LET vs == {v \in DistValues : LastEntry(lg).raw = DistLine(v) \o NL}
         IN  ReadingsIn(SubSeq(lg, 1, Len(lg) - 1))
                 \o (IF vs = {} THEN <<>> ELSE <<ReadingOf[CHOOSE v \in vs : TRUE]>>)

\* C21: dist_history holds at most 5 entries and is the last min(n, 5) of the n
\* readings parsed so far, in the order read, whether or not the smoothed distance
\* of a reading was limited.
HistoryIsWindow ==
    LET rs == ReadingsIn(log)
        n  == Len(rs)
    IN  /\ Len(state.dist_history) <= 5
        /\ state.dist_history = SubSeq(rs, (IF n > 5 THEN n - 4 ELSE 1), n)

\* C21 witness: after 40, 40, 40, 1000, 1000, 1000 the first reading is evicted,
\* the three readings of 1000 are in the window and dist_cm was limited to 70.
HistoryIsWindowSeen ==
    /\ ReadingsIn(log) = <<40 * FP, 40 * FP, 40 * FP, 1000 * FP, 1000 * FP, 1000 * FP>>
    /\ state.dist_history = <<40 * FP, 40 * FP, 1000 * FP, 1000 * FP, 1000 * FP>>
    /\ state.dist_cm = Some(70 * FP)

\* The k-th smallest value of the window w: fewer than k entries lie below it and
\* at least k entries do not lie above it.
KthSmallest(w, k) ==
    CHOOSE x \in {w[i] : i \in 1..Len(w)} :
        /\ Cardinality({i \in 1..Len(w) : w[i] < x}) < k
        /\ Cardinality({i \in 1..Len(w) : w[i] <= x}) >= k

\* Twice the median of the window w: the middle value counted twice, or the sum of
\* the two middle values.
TwiceMiddle(w) ==
    IF Len(w) % 2 = 1 THEN 2 * KthSmallest(w, (Len(w) + 1) \div 2)
    ELSE KthSmallest(w, Len(w) \div 2) + KthSmallest(w, Len(w) \div 2 + 1)

\* C22: after a distance reading, with m the median of the window that holds the
\* reading and p the previous dist_cm, dist_cm is m when p is None or
\* |m - p| <= 30, p + 30 when m > p + 30 and p - 30 when m < p - 30.
SmoothIsClampedMedian ==
    [][\A v \in DistValues :
          Reads({DistLine(v) \o NL}) =>
              LET m2 == TwiceMiddle(state'.dist_history)
                  p  == state.dist_cm
              IN  /\ state'.dist_cm # None
                  /\ IF p = None \/ Abs(m2 - 2 * Val(p)) <= 2 * 30 * FP
                     THEN 2 * Val(state'.dist_cm) = m2
                     ELSE IF m2 > 2 * Val(p)
                          THEN Val(state'.dist_cm) = Val(p) + 30 * FP
                          ELSE Val(state'.dist_cm) = Val(p) - 30 * FP]_vars

\* C22 witness: after 1000 and 40 the window has two entries, their mean is 520,
\* and dist_cm went down by 30 from 1000.
SmoothIsClampedMedianSeen ==
    /\ ReadingsIn(log) = <<1000 * FP, 40 * FP>>
    /\ Len(log) = 2
    /\ state.dist_history = <<1000 * FP, 40 * FP>>
    /\ state.dist_cm = Some(970 * FP)

\* The window w is not empty and all its entries are v.
AllEqual(w, v) == w # <<>> /\ \A i \in 1..Len(w) : w[i] = v

\* C23 as stated: when the window is not empty, all its entries are v and dist_cm
\* is v, one reading of another value leaves dist_cm at v.
SpikeRejected ==
    [][\A v, u \in DistValues :
          /\ u # v
          /\ AllEqual(state.dist_history, v * FP)
          /\ state.dist_cm = Some(v * FP)
          /\ Reads({DistLine(u) \o NL})
          => state'.dist_cm = Some(v * FP)]_vars

\* C23 amended: with at least two entries in the window the reading leaves dist_cm
\* at v; with a single entry dist_cm becomes the mean of v and the reading, limited
\* to 30 above or below v.
SpikeRejectedFromTwo ==
    [][\A v, u \in DistValues :
          /\ u # v
          /\ AllEqual(state.dist_history, v * FP)
          /\ state.dist_cm = Some(v * FP)
          /\ Reads({DistLine(u) \o NL})
          => IF Len(state.dist_history) >= 2
             THEN state'.dist_cm = Some(v * FP)
             ELSE /\ state'.dist_cm # Some(v * FP)
                  /\ 2 * Val(state'.dist_cm) =
                        IF Abs(u - v) * FP <= 2 * 30 * FP THEN (u + v) * FP
                        ELSE IF u > v THEN 2 * (v + 30) * FP ELSE 2 * (v - 30) * FP]_vars

\* C23 witness: the window was full of readings of 100 with dist_cm at 100, and a
\* reading of 1000 has left dist_cm at 100.
SpikeRejectedFromTwoSeen ==
    /\ ReadingsIn(log) = <<100 * FP, 100 * FP, 100 * FP, 100 * FP, 100 * FP, 1000 * FP>>
    /\ state.dist_history = <<100 * FP, 100 * FP, 100 * FP, 100 * FP, 1000 * FP>>
    /\ state.dist_cm = Some(100 * FP)

\* The compensation the rule gives for a roll and a zero reference.
CompOf(roll, zero) == IF Degrees(roll) > 80 * FP THEN None ELSE Some(Degrees(roll) - zero)

\* The IMU lines of the orientation specification and the reading each carries.
ImuReadings ==
    (L_imu_turn :> Six(0, 16384, 0, 32767, 0, 0)) @@ (L_imu_level :> Six(0, 0, 16384, 0, 0, 0))

\* C24: right after an IMU line roll is the filter's update from the line's reading,
\* dist_comp_cm follows the rule for that new roll, mpu_vals holds the reading and
\* t has advanced by DT; right after a distance line dist_comp_cm follows the rule
\* for the unchanged roll; a distance line and a button line leave t and mpu_vals.
CompensationRecomputed ==
    [][/\ \A raw \in DOMAIN ImuReadings :
              Reads({raw}) =>
                  /\ state'.roll = update_orientation(state.roll, ImuReadings[raw])
                  /\ state'.dist_comp_cm = CompOf(state'.roll, state.zero_roll_deg)
                  /\ state'.mpu_vals = Some(ImuReadings[raw])
                  /\ state'.t = state.t + DT
       /\ Reads({L_dist40}) =>
              /\ state'.roll = state.roll
              /\ state'.dist_comp_cm = CompOf(state.roll, state.zero_roll_deg)
              /\ state'.mpu_vals = state.mpu_vals
              /\ state'.t = state.t
       /\ Reads({L_button_pressed}) =>
              /\ state'.mpu_vals = state.mpu_vals
              /\ state'.t = state.t]_vars

\* C24 witness: an IMU line, a button line that took the roll as the zero
\* reference, and a second IMU line: the compensation is the turn of that line.
CompensationRecomputedSeen ==
    /\ RawLog = <<L_imu_turn, L_button_pressed, L_imu_turn>>
    /\ state.zero_roll_deg > 0
    /\ state.dist_comp_cm = Some(Degrees(state.roll) - state.zero_roll_deg)
    /\ Val(state.dist_comp_cm) > 0
    /\ state.t = 2 * DT

CompensationConsistent ==
    /\ lock # "ingest" =>
          \/ state.dist_comp_cm = None
          \/ state.dist_comp_cm = Some(Degrees(state.roll) - state.zero_roll_deg)
    /\ \A r \in Readers :
          data[r] # None =>
              \E c \in commits :
                  /\ Val(data[r]).roll = c.roll
                  /\ Val(data[r]).dist_comp_cm = c.dist_comp_cm
                  /\ \/ c.dist_comp_cm = None
                     \/ c.dist_comp_cm = Some(Degrees(c.roll) - c.zero_roll_deg)

\* C26 witness: a handler copies the state left by an IMU line and a button line:
\* the roll and the zero reference are the same angle off zero and the
\* compensation is 0.
CompensationConsistentSeen ==
    /\ RawLog = <<L_imu_turn, L_button_pressed>>
    /\ \E r \in Readers : lock = r /\ rpc[r] = "unlock" /\ Val(data[r]).dist_comp_cm = Some(0)
    /\ state.roll > 0
    /\ state.zero_roll_deg = Degrees(state.roll)
    /\ state.dist_comp_cm = Some(0)

\* The lines of the press-count specification that hold a button phrase.
RecognizedLines == {L_calibrated_all, L_button_pressed, L_calibrated_colon}

\* The number of recognized button lines processed so far.
RecognizedCount ==
    Cardinality({i \in 1..Len(log) : log[i].kind = "line" /\ log[i].raw \in RecognizedLines})

\* C27: button_press_count never decreases and is the number of recognized button
\* lines processed so far: a line with the phrases of several branches adds one,
\* and so does a button line that arrives while button_pressed is still true.
PressCountExact ==
    /\ [](state.button_press_count = RecognizedCount)
    /\ [][state'.button_press_count >= state.button_press_count]_vars
    /\ [][Reads(RecognizedLines) =>
              state'.button_press_count = state.button_press_count + 1]_vars

\* C27 witness: the line with the phrases of all three branches has been read twice,
\* 0.05 s apart, the second time with button_pressed still true, and a line that is
\* no button line after them: the count is 2.
PressCountExactSeen ==
    /\ RawLog = <<L_calibrated_all, L_calibrated_all, L_unknown>>
    /\ log[2].at - log[1].at < RELEASE_AFTER
    /\ state.button_pressed
    /\ state.button_press_count = 2

\* The positions of a handler inside `with state.lock`.
ReaderInside == {"copy", "unlock"}

\* C28: the lock is held by the ingest loop only inside its block and by a handler
\* only inside its own, so every way out of either block, the exception included,
\* leaves the lock free; and under fair scheduling every received line and every
\* snapshot request gets the lock.
LockAlwaysReleased ==
    /\ [](lock = "ingest" <=> ipc = "run")
    /\ [](\A r \in Readers : lock = r <=> rpc[r] \in ReaderInside)
    /\ [][ipc = "run" /\ ipc' # "run" => lock' = Free]_vars
    /\ [][\A r \in Readers :
              rpc[r] \in ReaderInside /\ rpc'[r] \notin ReaderInside => lock' = Free]_vars
    /\ (ipc = "lock") ~> (ipc = "run")
    /\ \A r \in Readers : (rpc[r] = "lock") ~> (rpc[r] = "copy")

\* C28 witness: an unrecognized line has left the block, a handler has taken the
\* lock after it, and the next line waits for the lock.
LockAlwaysReleasedSeen ==
    /\ RawLog = <<L_unknown, L_imu_turn>>
    /\ ipc = "lock"
    /\ \E r \in Readers : lock = r /\ rpc[r] = "copy"
    /\ Cardinality(commits) >= 1

====
